---- MODULE Spec2Model ----
(***************************************************************************)
(* Sorted-stream record filter of bio-jtools.                              *)
(*                                                                         *)
(* The model follows `filter` of src/src/align/filter.rs (the merge of a   *)
(* name-sorted record stream with a sorted identifier file) and            *)
(* `FastqFilterOpts::filter_with_id_file` of src/src/fastq/filter/opts.rs. *)
(* Names are strings, modelled as sequences of byte values; a record is    *)
(* identified by its position in the record stream, the writer by the      *)
(* sequence of record positions handed to writer.write().                  *)
(***************************************************************************)
EXTENDS Integers, Sequences, FiniteSets, TLC

\* ------------------------------------------------------------------------
\* Bounds of the model
\* ------------------------------------------------------------------------
MaxRecords == 3
MaxIds == 2

\* The names the streams are drawn from: "A", "a", "ab", "b".
Names == { <<65>>, <<97>>, <<97, 98>>, <<98>> }

\* ------------------------------------------------------------------------
\* Strings
\* ------------------------------------------------------------------------
Min(a, b) == IF a < b THEN a ELSE b

\* `<` of Rust's String / [u8]: lexicographic order on the bytes.
LexLess(s, t) ==
    \E k \in 1..(Min(Len(s), Len(t)) + 1) :
        /\ \A j \in 1..(k - 1) : s[j] = t[j]
        /\ \/ k > Len(s) /\ k <= Len(t)
           \/ k <= Len(s) /\ k <= Len(t) /\ s[k] < t[k]

\* String::to_lowercase on ASCII names.
to_lowercase(s) ==
    [j \in 1..Len(s) |-> IF s[j] >= 65 /\ s[j] <= 90 THEN s[j] + 32 ELSE s[j]]

\* Value of a String variable that has not been assigned yet.
Unset == << -1 >>

\* All sequences over S of length 0..n.
SeqsUpTo(S, n) == UNION { [1..k -> S] : k \in 0..n }

\* ------------------------------------------------------------------------
\* State
\* ------------------------------------------------------------------------
VARIABLES
    records,            \* names of the records the reader yields, in file order
    ids,                \* lines of the identifier file, in file order
    keep,               \* the `keep` argument
    engine,             \* which filter is running: "align" or "fastq"
    pc,                 \* position in the running filter
    outcome,            \* "running", "ok", or the error the pass stopped with
    id_file,            \* number of lines id_file.next() has yielded
    reader,             \* number of records the record reader has yielded
    prev_id,
    cur_id,
    prev_record_name,
    cur_record_name,
    cur_record,         \* position of the record held in cur_record (0: none)
    deal_with_remaining_reads,
    writer,             \* record positions passed to writer.write(), in order
    finish_calls,       \* number of calls of writer.finish()
    read_calls,         \* number of calls of reader.read_into / reader.next
    decided,            \* history: one entry per emit-or-drop decision
    filt_iter,          \* FastqFilterIter of the FASTQ pass
    curr_record,        \* `curr_record` of filter_with_id_file (0: None)
    last_pass,          \* result of the previous pass over the same files
    value,              \* the read name given to RecordName::try_from
    record_name         \* what RecordName::try_from returned ("none": not called)

vars == << records, ids, keep, engine, pc, outcome, id_file, reader, prev_id,
           cur_id, prev_record_name, cur_record_name, cur_record,
           deal_with_remaining_reads, writer, finish_calls, read_calls,
           decided, filt_iter, curr_record, last_pass, value, record_name >>

inputs == << records, ids >>
cursors == << id_file, reader, prev_id, cur_id, prev_record_name,
              cur_record_name, cur_record >>
fastq_state == << filt_iter, curr_record >>
name_state == << value, record_name >>

NoPass == [engine |-> "none"]

\* FastqFilterIter::default()
FastqFilterIterDefault ==
    [prev_id |-> Unset, curr_id |-> Unset, prev_record |-> Unset, curr_record |-> 0]

\* State of a pass that is about to start.
Fresh ==
    /\ pc = "start"
    /\ outcome = "running"
    /\ id_file = 0
    /\ reader = 0
    /\ prev_id = Unset
    /\ cur_id = Unset
    /\ prev_record_name = Unset
    /\ cur_record_name = Unset
    /\ cur_record = 0
    /\ deal_with_remaining_reads = FALSE
    /\ writer = << >>
    /\ finish_calls = 0
    /\ read_calls = 0
    /\ decided = << >>
    /\ filt_iter = FastqFilterIterDefault
    /\ curr_record = 0

Init ==
    /\ records \in SeqsUpTo(Names, MaxRecords)
    /\ ids \in SeqsUpTo(Names, MaxIds)
    /\ keep \in BOOLEAN
    /\ engine = "align"
    /\ last_pass = NoPass
    /\ value = << >>
    /\ record_name = "none"
    /\ Fresh

\* The same assignments, made when a pass is started again.
StartPassKeepsWriter ==
    /\ pc' = "start"
    /\ outcome' = "running"
    /\ id_file' = 0
    /\ reader' = 0
    /\ prev_id' = Unset
    /\ cur_id' = Unset
    /\ prev_record_name' = Unset
    /\ cur_record_name' = Unset
    /\ cur_record' = 0
    /\ deal_with_remaining_reads' = FALSE
    /\ writer' = writer
    /\ finish_calls' = 0
    /\ read_calls' = 0
    /\ decided' = << >>
    /\ filt_iter' = FastqFilterIterDefault
    /\ curr_record' = 0

StartPass ==
    /\ pc' = "start"
    /\ outcome' = "running"
    /\ id_file' = 0
    /\ reader' = 0
    /\ prev_id' = Unset
    /\ cur_id' = Unset
    /\ prev_record_name' = Unset
    /\ cur_record_name' = Unset
    /\ cur_record' = 0
    /\ deal_with_remaining_reads' = FALSE
    /\ writer' = << >>
    /\ finish_calls' = 0
    /\ read_calls' = 0
    /\ decided' = << >>
    /\ filt_iter' = FastqFilterIterDefault
    /\ curr_record' = 0

\* One emit-or-drop decision: which record, against which identifier line
\* (0: none), in which branch, and whether the record was written.
Decision(r, i, b, w) == [record |-> r, id |-> i, branch |-> b, wrote |-> w]

\* The pass stops with a panic; a variant that notes the error and goes on.
PanicContinues(e) ==
    /\ pc' = pc
    /\ outcome' = e

Panic(e) ==
    /\ pc' = "done"
    /\ outcome' = e

\* ------------------------------------------------------------------------
\* align::filter::filter
\* ------------------------------------------------------------------------

\* `if &cur_id < &prev_id`
IdsOutOfOrderNever(c, p) == FALSE
IdsOutOfOrder(c, p) == LexLess(c, p)

\* `if &cur_record_name < &prev_record_name`
RecordsOutOfOrderNonStrict(c, p) == LexLess(c, p) \/ c = p
RecordsOutOfOrderNever(c, p) == FALSE
RecordsOutOfOrder(c, p) == LexLess(c, p)

\* `if !keep` of the branch cur_record_name < cur_id
WriteWhenLessAlways(k) == TRUE
WriteWhenLess(k) == ~k

\* `if keep` of the branch cur_record_name = cur_id
WriteWhenEqual(k) == k

\* the write of the branch cur_record_name > cur_id once the identifiers are
\* exhausted: `writer.write(&cur_record).unwrap()` is not guarded by `keep`
WriteWhenIdsExhausted(k) == TRUE

\* `if deal_with_remaining_reads && !keep`
DrainTailNever(d, k) == FALSE
DrainTailIgnoresFlag(d, k) == ~k
DrainTail(d, k) == d /\ ~k

\* first ID in the ID file
PrimeId ==
    /\ engine = "align"
    /\ pc = "start"
    /\ IF ids = << >>
       THEN /\ Panic("EmptyIds")
            /\ UNCHANGED << prev_id, cur_id, id_file >>
       ELSE /\ prev_id' = to_lowercase(ids[1])
            /\ cur_id' = to_lowercase(ids[1])
            /\ id_file' = 1
            /\ pc' = "prime_record"
            /\ UNCHANGED outcome
    /\ UNCHANGED << inputs, keep, engine, reader, prev_record_name,
                    cur_record_name, cur_record, deal_with_remaining_reads,
                    writer, finish_calls, read_calls, decided, fastq_state,
                    last_pass, name_state >>

\* name of the first record in the SAM/BAM file
PrimeRecordSwallowsEmpty ==
    /\ engine = "align"
    /\ pc = "prime_record"
    /\ read_calls' = read_calls + 1
    /\ IF records = << >>
       THEN /\ pc' = "done"
            /\ outcome' = "ok"
            /\ finish_calls' = finish_calls + 1
            /\ UNCHANGED << reader, prev_record_name, cur_record_name,
                            cur_record, deal_with_remaining_reads >>
       ELSE /\ reader' = 1
            /\ prev_record_name' = to_lowercase(records[1])
            /\ cur_record' = 1
            /\ cur_record_name' = to_lowercase(records[1])
            /\ deal_with_remaining_reads' = FALSE
            /\ pc' = "loop"
            /\ UNCHANGED << outcome, finish_calls >>
    /\ UNCHANGED << inputs, keep, engine, id_file, prev_id, cur_id, writer,
                    decided, fastq_state, last_pass, name_state >>

PrimeRecord ==
    /\ engine = "align"
    /\ pc = "prime_record"
    /\ read_calls' = read_calls + 1
    /\ IF records = << >>
       THEN /\ Panic("EmptyRecords")
            /\ UNCHANGED << reader, prev_record_name, cur_record_name,
                            cur_record, deal_with_remaining_reads >>
       ELSE /\ reader' = 1
            /\ prev_record_name' = to_lowercase(records[1])
            /\ cur_record' = 1
            /\ cur_record_name' = to_lowercase(records[1])
            /\ deal_with_remaining_reads' = FALSE
            /\ pc' = "loop"
            /\ UNCHANGED outcome
    /\ UNCHANGED << inputs, keep, engine, id_file, prev_id, cur_id, writer,
                    finish_calls, decided, fastq_state, last_pass, name_state >>

\* panic if IDs aren't sorted
IdsNotSorted ==
    /\ engine = "align"
    /\ pc = "loop"
    /\ IdsOutOfOrder(cur_id, prev_id)
    /\ Panic("IdsNotSorted")
    /\ UNCHANGED << inputs, keep, engine, cursors, deal_with_remaining_reads,
                    writer, finish_calls, read_calls, decided, fastq_state,
                    last_pass, name_state >>

\* panic if SAM/BAM isn't name-sorted
RecordsNotSorted ==
    /\ engine = "align"
    /\ pc = "loop"
    /\ ~IdsOutOfOrder(cur_id, prev_id)
    /\ RecordsOutOfOrder(cur_record_name, prev_record_name)
    /\ Panic("RecordsNotSorted")
    /\ UNCHANGED << inputs, keep, engine, cursors, deal_with_remaining_reads,
                    writer, finish_calls, read_calls, decided, fastq_state,
                    last_pass, name_state >>

\* Both sortedness checks of an iteration passed.
ChecksPassed ==
    /\ ~IdsOutOfOrder(cur_id, prev_id)
    /\ ~RecordsOutOfOrder(cur_record_name, prev_record_name)

\* `reader.read_into(&mut cur_record)` inside the loop, followed by the update
\* of cur_record_name, or by writer.finish() and `break` at the end of the
\* record stream.
ReadNextRecordNoBreak ==
    /\ read_calls' = read_calls + 1
    /\ IF reader < Len(records)
       THEN /\ reader' = reader + 1
            /\ cur_record' = reader + 1
            /\ cur_record_name' = to_lowercase(records[reader + 1])
            /\ pc' = "loop"
            /\ UNCHANGED finish_calls
       ELSE /\ finish_calls' = finish_calls + 1
            /\ pc' = "loop"
            /\ UNCHANGED << reader, cur_record, cur_record_name >>

ReadNextRecordUnfolded ==
    /\ read_calls' = read_calls + 1
    /\ IF reader < Len(records)
       THEN /\ reader' = reader + 1
            /\ cur_record' = reader + 1
            /\ cur_record_name' = records[reader + 1]
            /\ pc' = "loop"
            /\ UNCHANGED finish_calls
       ELSE /\ finish_calls' = finish_calls + 1
            /\ pc' = "after_loop"
            /\ UNCHANGED << reader, cur_record, cur_record_name >>

ReadNextRecord ==
    /\ read_calls' = read_calls + 1
    /\ IF reader < Len(records)
       THEN /\ reader' = reader + 1
            /\ cur_record' = reader + 1
            /\ cur_record_name' = to_lowercase(records[reader + 1])
            /\ pc' = "loop"
            /\ UNCHANGED finish_calls
       ELSE /\ finish_calls' = finish_calls + 1
            /\ pc' = "after_loop"
            /\ UNCHANGED << reader, cur_record, cur_record_name >>

\* write or discard record if the IDs are ahead of the reads
Less ==
    /\ engine = "align"
    /\ pc = "loop"
    /\ ChecksPassed
    /\ LexLess(cur_record_name, cur_id)
    /\ writer' = IF WriteWhenLess(keep) THEN Append(writer, cur_record) ELSE writer
    /\ decided' = Append(decided,
                         Decision(cur_record, id_file, "less", WriteWhenLess(keep)))
    /\ prev_record_name' = cur_record_name
    /\ ReadNextRecord
    /\ UNCHANGED << inputs, keep, engine, outcome, id_file, prev_id, cur_id,
                    deal_with_remaining_reads, fastq_state, last_pass, name_state >>

\* update the IDs to catch up to the records
GreaterForgetsPending ==
    /\ engine = "align"
    /\ pc = "loop"
    /\ ChecksPassed
    /\ ~LexLess(cur_record_name, cur_id)
    /\ LexLess(cur_id, cur_record_name)
    /\ IF id_file < Len(ids)
       THEN /\ prev_id' = cur_id
            /\ cur_id' = to_lowercase(ids[id_file + 1])
            /\ id_file' = id_file + 1
            /\ UNCHANGED << writer, decided, deal_with_remaining_reads, pc >>
       ELSE /\ deal_with_remaining_reads' = TRUE
            /\ pc' = "after_loop"
            /\ UNCHANGED << prev_id, cur_id, id_file, writer, decided >>
    /\ UNCHANGED << inputs, keep, engine, outcome, reader, prev_record_name,
                    cur_record_name, cur_record, finish_calls, read_calls,
                    fastq_state, last_pass, name_state >>

Greater ==
    /\ engine = "align"
    /\ pc = "loop"
    /\ ChecksPassed
    /\ ~LexLess(cur_record_name, cur_id)
    /\ LexLess(cur_id, cur_record_name)
    /\ IF id_file < Len(ids)
       THEN /\ prev_id' = cur_id
            /\ cur_id' = to_lowercase(ids[id_file + 1])
            /\ id_file' = id_file + 1
            /\ UNCHANGED << writer, decided, deal_with_remaining_reads, pc >>
       ELSE /\ writer' = IF WriteWhenIdsExhausted(keep)
                         THEN Append(writer, cur_record) ELSE writer
            /\ decided' = Append(decided,
                                 Decision(cur_record, 0, "exhausted",
                                          WriteWhenIdsExhausted(keep)))
            /\ deal_with_remaining_reads' = TRUE
            /\ pc' = "after_loop"
            /\ UNCHANGED << prev_id, cur_id, id_file >>
    /\ UNCHANGED << inputs, keep, engine, outcome, reader, prev_record_name,
                    cur_record_name, cur_record, finish_calls, read_calls,
                    fastq_state, last_pass, name_state >>

\* don't purge this ID yet, just move onto the next record
EqualAdvancesId ==
    /\ engine = "align"
    /\ pc = "loop"
    /\ ChecksPassed
    /\ ~LexLess(cur_record_name, cur_id)
    /\ ~LexLess(cur_id, cur_record_name)
    /\ writer' = IF WriteWhenEqual(keep) THEN Append(writer, cur_record) ELSE writer
    /\ decided' = Append(decided,
                         Decision(cur_record, id_file, "equal", WriteWhenEqual(keep)))
    /\ prev_record_name' = cur_record_name
    /\ ReadNextRecord
    /\ IF id_file < Len(ids)
       THEN /\ prev_id' = cur_id
            /\ cur_id' = to_lowercase(ids[id_file + 1])
            /\ id_file' = id_file + 1
       ELSE UNCHANGED << prev_id, cur_id, id_file >>
    /\ UNCHANGED << inputs, keep, engine, outcome,
                    deal_with_remaining_reads, fastq_state, last_pass, name_state >>

EqualKeepsPrevName ==
    /\ engine = "align"
    /\ pc = "loop"
    /\ ChecksPassed
    /\ ~LexLess(cur_record_name, cur_id)
    /\ ~LexLess(cur_id, cur_record_name)
    /\ writer' = IF WriteWhenEqual(keep) THEN Append(writer, cur_record) ELSE writer
    /\ decided' = Append(decided,
                         Decision(cur_record, id_file, "equal", WriteWhenEqual(keep)))
    /\ prev_record_name' = prev_record_name
    /\ ReadNextRecord
    /\ UNCHANGED << inputs, keep, engine, outcome, id_file, prev_id, cur_id,
                    deal_with_remaining_reads, fastq_state, last_pass, name_state >>

Equal ==
    /\ engine = "align"
    /\ pc = "loop"
    /\ ChecksPassed
    /\ ~LexLess(cur_record_name, cur_id)
    /\ ~LexLess(cur_id, cur_record_name)
    /\ writer' = IF WriteWhenEqual(keep) THEN Append(writer, cur_record) ELSE writer
    /\ decided' = Append(decided,
                         Decision(cur_record, id_file, "equal", WriteWhenEqual(keep)))
    /\ prev_record_name' = cur_record_name
    /\ ReadNextRecord
    /\ UNCHANGED << inputs, keep, engine, outcome, id_file, prev_id, cur_id,
                    deal_with_remaining_reads, fastq_state, last_pass, name_state >>

\* The records the reader has not yielded, dropped together.
Unread == [j \in 1..(Len(records) - reader) |->
              Decision(reader + j, 0, "unread", FALSE)]

\* `if deal_with_remaining_reads && !keep` after the loop
AfterLoop ==
    /\ engine = "align"
    /\ pc = "after_loop"
    /\ IF DrainTail(deal_with_remaining_reads, keep)
       THEN /\ pc' = "drain"
            /\ UNCHANGED << outcome, decided >>
       ELSE /\ pc' = "done"
            /\ outcome' = "ok"
            /\ decided' = IF deal_with_remaining_reads
                          THEN decided \o Unread ELSE decided
    /\ UNCHANGED << inputs, keep, engine, cursors, deal_with_remaining_reads,
                    writer, finish_calls, read_calls, fastq_state, last_pass, name_state >>

\* one iteration of `for read in reader`
DrainRecord ==
    /\ engine = "align"
    /\ pc = "drain"
    /\ reader < Len(records)
    /\ read_calls' = read_calls + 1
    /\ reader' = reader + 1
    /\ writer' = Append(writer, reader + 1)
    /\ decided' = Append(decided, Decision(reader + 1, 0, "tail", TRUE))
    /\ UNCHANGED << inputs, keep, engine, pc, outcome, id_file, prev_id, cur_id,
                    prev_record_name, cur_record_name, cur_record,
                    deal_with_remaining_reads, finish_calls, fastq_state,
                    last_pass, name_state >>

\* the reader is exhausted: `writer.finish().unwrap()` after the for loop
DrainFinish ==
    /\ engine = "align"
    /\ pc = "drain"
    /\ reader = Len(records)
    /\ read_calls' = read_calls + 1
    /\ finish_calls' = finish_calls + 1
    /\ pc' = "done"
    /\ outcome' = "ok"
    /\ UNCHANGED << inputs, keep, engine, cursors, deal_with_remaining_reads,
                    writer, decided, fastq_state, last_pass, name_state >>

Next ==
    \/ PrimeId
    \/ PrimeRecord
    \/ IdsNotSorted
    \/ RecordsNotSorted
    \/ Less
    \/ Greater
    \/ Equal
    \/ AfterLoop
    \/ DrainRecord
    \/ DrainFinish

Spec == Init /\ [][Next]_vars

\* The filter is sequential code that runs until it returns or panics.
SpecFair == Spec /\ WF_vars(Next)

\* ------------------------------------------------------------------------
\* align::filter::filter: the calls that fail
\* ------------------------------------------------------------------------

\* The branch the comparison of cur_record_name with cur_id selects.
Branch ==
    IF LexLess(cur_record_name, cur_id) THEN "less"
    ELSE IF LexLess(cur_id, cur_record_name) THEN "greater"
    ELSE "equal"

\* Whether the less or the equal branch writes the current record.
BranchWrites == IF Branch = "less" THEN WriteWhenLess(keep) ELSE WriteWhenEqual(keep)

\* `id_file.next()` returns Some(Err(_)): the panic for the first line, or
\* the panic of the greater branch.
IdReadError ==
    /\ engine = "align"
    /\ \/ pc = "start"
       \/ pc = "loop" /\ ChecksPassed /\ Branch = "greater"
    /\ Panic("IdParseError")
    /\ UNCHANGED << inputs, keep, engine, cursors, deal_with_remaining_reads,
                    writer, finish_calls, read_calls, decided, fastq_state,
                    last_pass, name_state >>

\* `reader.read_into(..)` returns Err(_), or the name of the record that was
\* read is not UTF-8 and `from_utf8(..).unwrap()` panics; in the tail flush,
\* `read.unwrap()` panics. In the less and the equal branch the write of the
\* current record has already happened.
RecordReadError ==
    /\ engine = "align"
    /\ read_calls' = read_calls + 1
    /\ Panic("RecordParseError")
    /\ IF pc = "loop"
       THEN /\ ChecksPassed
            /\ Branch # "greater"
            /\ writer' = IF BranchWrites THEN Append(writer, cur_record) ELSE writer
            /\ decided' = Append(decided,
                                 Decision(cur_record, id_file, Branch, BranchWrites))
            /\ prev_record_name' = cur_record_name
            /\ reader' \in {reader} \cup
                           (IF reader < Len(records) THEN {reader + 1} ELSE {})
       ELSE /\ pc \in {"prime_record", "drain"}
            /\ reader' \in {reader} \cup
                           (IF pc = "prime_record" /\ reader < Len(records)
                            THEN {reader + 1} ELSE {})
            /\ UNCHANGED << writer, decided, prev_record_name >>
    /\ UNCHANGED << inputs, keep, engine, id_file, prev_id, cur_id,
                    cur_record_name, cur_record, deal_with_remaining_reads,
                    finish_calls, fastq_state, last_pass, name_state >>

\* `writer.write(..).unwrap()` panics: in one of the three branches of the
\* loop, or in the tail flush after a record has been read. Nothing is
\* appended to the output.
WriteError ==
    /\ engine = "align"
    /\ Panic("WriteFailure")
    /\ IF pc = "loop"
       THEN /\ ChecksPassed
            /\ IF Branch = "greater"
               THEN id_file = Len(ids) /\ WriteWhenIdsExhausted(keep)
               ELSE BranchWrites
            /\ UNCHANGED << reader, read_calls >>
       ELSE /\ pc = "drain"
            /\ reader < Len(records)
            /\ reader' = reader + 1
            /\ read_calls' = read_calls + 1
    /\ UNCHANGED << inputs, keep, engine, id_file, prev_id, cur_id,
                    prev_record_name, cur_record_name, cur_record,
                    deal_with_remaining_reads, writer, finish_calls, decided,
                    fastq_state, last_pass, name_state >>

\* `writer.finish().unwrap()` panics: at the end of the record stream in the
\* less or the equal branch, or after the tail flush.
FinishError ==
    /\ engine = "align"
    /\ reader = Len(records)
    /\ read_calls' = read_calls + 1
    /\ finish_calls' = finish_calls + 1
    /\ Panic("FinalizeFailure")
    /\ IF pc = "loop"
       THEN /\ ChecksPassed
            /\ Branch # "greater"
            /\ writer' = IF BranchWrites THEN Append(writer, cur_record) ELSE writer
            /\ decided' = Append(decided,
                                 Decision(cur_record, id_file, Branch, BranchWrites))
            /\ prev_record_name' = cur_record_name
       ELSE /\ pc = "drain"
            /\ UNCHANGED << writer, decided, prev_record_name >>
    /\ UNCHANGED << inputs, keep, engine, id_file, reader, prev_id, cur_id,
                    cur_record_name, cur_record, deal_with_remaining_reads,
                    fastq_state, last_pass, name_state >>

NextFault ==
    \/ Next
    \/ IdReadError
    \/ RecordReadError
    \/ WriteError
    \/ FinishError

\* Every call on a file or on the writer may fail.
SpecFault == Init /\ [][NextFault]_vars

\* ------------------------------------------------------------------------
\* fastq::filter::opts::FastqFilterOpts::filter_with_id_file
\* ------------------------------------------------------------------------

\* assert_records_are_sorted(&curr_record, filt_iter.prev_record_id()):
\* "Ok" or the error returned. c is a record position or 0 (None), p the
\* previous record id or Unset (None).
assert_records_are_sorted(c, p) ==
    IF c # 0 /\ p # Unset
    THEN IF LexLess(records[c], p) THEN "Ok" ELSE "FastqNotSorted"
    ELSE "Ok"

\* A setup that also reads the first identifier into the iterator.
FqSetupLoadsFirstId ==
    /\ engine = "fastq"
    /\ pc = "start"
    /\ filt_iter' = [FastqFilterIterDefault EXCEPT
                        !.curr_id = IF ids # << >> THEN ids[1] ELSE Unset]
    /\ deal_with_remaining_reads' = FALSE
    /\ read_calls' = read_calls + 1
    /\ IF reader < Len(records)
       THEN /\ reader' = reader + 1
            /\ curr_record' = reader + 1
       ELSE /\ curr_record' = 0
            /\ UNCHANGED reader
    /\ pc' = "fq_loop"
    /\ UNCHANGED << inputs, keep, engine, outcome, id_file, prev_id, cur_id,
                    prev_record_name, cur_record_name, cur_record, writer,
                    finish_calls, decided, last_pass, name_state >>

\* The reader, iterator and writer are created and the first record is read:
\* `let mut curr_record = fq_reader.next()`.
FqSetup ==
    /\ engine = "fastq"
    /\ pc = "start"
    /\ filt_iter' = FastqFilterIterDefault
    /\ deal_with_remaining_reads' = FALSE
    /\ read_calls' = read_calls + 1
    /\ IF reader < Len(records)
       THEN /\ reader' = reader + 1
            /\ curr_record' = reader + 1
       ELSE /\ curr_record' = 0
            /\ UNCHANGED reader
    /\ pc' = "fq_loop"
    /\ UNCHANGED << inputs, keep, engine, outcome, id_file, prev_id, cur_id,
                    prev_record_name, cur_record_name, cur_record, writer,
                    finish_calls, decided, last_pass, name_state >>

\* One iteration of the loop over both files. The block that would advance
\* the record or the identifier is commented out in the source, so update_record
\* and update_id are set and never read.
FqLoop ==
    /\ engine = "fastq"
    /\ pc = "fq_loop"
    /\ LET sorted == assert_records_are_sorted(curr_record, filt_iter.prev_record)
           filter_id == filt_iter.curr_id
           both == curr_record # 0 /\ filter_id # Unset
           write == /\ both
                    /\ IF LexLess(records[curr_record], filter_id) THEN ~keep
                       ELSE IF LexLess(filter_id, records[curr_record]) THEN FALSE
                       ELSE keep
       IN IF sorted # "Ok"
          THEN /\ Panic(sorted)
               /\ UNCHANGED << writer, decided >>
          ELSE /\ writer' = IF write THEN Append(writer, curr_record) ELSE writer
               /\ decided' = IF both
                             THEN Append(decided,
                                         Decision(curr_record, id_file, "fastq", write))
                             ELSE decided
               /\ pc' = IF curr_record = 0 \/ filt_iter.curr_id = Unset
                        THEN "fq_after_loop" ELSE "fq_loop"
               /\ UNCHANGED outcome
    /\ UNCHANGED << inputs, keep, engine, cursors, deal_with_remaining_reads,
                    finish_calls, read_calls, fastq_state, last_pass, name_state >>

\* The records the FASTQ reader still holds, in order.
RestOfReader == [j \in 1..(Len(records) - reader) |-> reader + j]

\* `if deal_with_remaining_reads && !self.keep { while let ... }` and `Ok(())`
FqAfterLoop ==
    /\ engine = "fastq"
    /\ pc = "fq_after_loop"
    /\ IF deal_with_remaining_reads /\ ~keep
       THEN /\ writer' = writer \o RestOfReader
            /\ reader' = Len(records)
            /\ read_calls' = read_calls + Len(RestOfReader) + 1
       ELSE UNCHANGED << writer, reader, read_calls >>
    /\ pc' = "done"
    /\ outcome' = "ok"
    /\ UNCHANGED << inputs, keep, engine, id_file, prev_id, cur_id,
                    prev_record_name, cur_record_name, cur_record,
                    deal_with_remaining_reads, finish_calls, decided,
                    fastq_state, last_pass, name_state >>

\* A single call of filter_with_id_file.
InitFastq ==
    /\ records \in SeqsUpTo(Names, MaxRecords)
    /\ ids \in SeqsUpTo(Names, MaxIds)
    /\ keep \in BOOLEAN
    /\ engine = "fastq"
    /\ last_pass = NoPass
    /\ value = << >>
    /\ record_name = "none"
    /\ Fresh

NextFastq ==
    \/ FqSetup
    \/ FqLoop
    \/ FqAfterLoop

\* The function is sequential code that runs until it returns.
SpecFastq == InitFastq /\ [][NextFastq]_vars /\ WF_vars(NextFastq)

\* ------------------------------------------------------------------------
\* A second pass over the same two files
\* ------------------------------------------------------------------------

\* What a finished pass leaves behind.
PassResult ==
    [engine |-> engine, keep |-> keep, writer |-> writer, outcome |-> outcome,
     finish_calls |-> finish_calls]

\* The filter is called again on the same record file and identifier file,
\* with either engine and either value of `keep`.
Rerun ==
    /\ pc = "done"
    /\ last_pass = NoPass
    /\ last_pass' = PassResult
    /\ engine' \in {"align", "fastq"}
    /\ keep' \in BOOLEAN
    /\ StartPass
    /\ UNCHANGED << inputs, name_state >>

NextRerun ==
    \/ Next
    \/ FqSetup
    \/ FqLoop
    \/ FqAfterLoop
    \/ Rerun

SpecRerun == Init /\ [][NextRerun]_vars

\* ------------------------------------------------------------------------
\* record::header: impl TryFrom<&[u8]> for RecordName
\* ------------------------------------------------------------------------
MaxNameLen == 4

\* The bytes read names are drawn from: "S", "R", "A".
NameBytes == {83, 82, 65}

\* "SRR" encoded in ASCII bytes.
SRA_RNAME_PREFIX == <<83, 82, 82>>

\* RecordName::try_from(value). `value[0..3]` panics (range end index out of
\* range) when the name has fewer than three bytes.
RecordName_try_from(v) ==
    IF Len(v) < 3
    THEN "panic"
    ELSE IF SubSeq(v, 1, 3) = SubSeq(SRA_RNAME_PREFIX, 1, 3)
         THEN "Ok(SequenceReadArchive)"
         ELSE "Ok(CasavaV1_8)"

InitName ==
    /\ records = << >>
    /\ ids = << >>
    /\ keep = FALSE
    /\ engine = "name"
    /\ last_pass = NoPass
    /\ value \in SeqsUpTo(NameBytes, MaxNameLen)
    /\ record_name = "none"
    /\ Fresh

\* A caller asks for the format of a read name.
TryFrom ==
    /\ engine = "name"
    /\ record_name = "none"
    /\ record_name' = RecordName_try_from(value)
    /\ UNCHANGED << inputs, keep, engine, pc, outcome, cursors,
                    deal_with_remaining_reads, writer, finish_calls,
                    read_calls, decided, fastq_state, last_pass, value >>

NextName == TryFrom

SpecName == InitName /\ [][NextName]_vars

\* ------------------------------------------------------------------------
\* fastq::filter::iter::FastqFilterIter
\* ------------------------------------------------------------------------

\* The ids of FASTQ records are bytes: one of them is not UTF-8.
IterNames == Names \cup {<<255>>}

\* String::from_utf8 succeeds. Over IterNames: an ASCII name is UTF-8, and the
\* byte 0xFF occurs in no UTF-8 string.
IsUtf8(s) == \A j \in 1..Len(s) : s[j] < 128

\* assert_ids_are_sorted on the current and the previous identifier (Unset:
\* None): "Ok" or the error returned.
assert_ids_are_sorted(c, p) ==
    IF c # Unset /\ p # Unset
    THEN IF LexLess(c, p) THEN "Ok" ELSE "IdFileNotSorted"
    ELSE "Ok"

\* The method assert_records_are_sorted on the id of the current record and
\* the id of the previous one (Unset: None).
iter_assert_records_are_sorted(c, p) ==
    IF c # Unset /\ p # Unset
    THEN IF LexLess(c, p) THEN "Ok" ELSE "FastqNotSorted"
    ELSE "Ok"

\* curr_record_id(): the id of the current record, or None.
curr_record_id == IF filt_iter.curr_record = 0 THEN Unset
                  ELSE records[filt_iter.curr_record]

\* A fresh iterator and the two readers it is fed from. `pc` is the method
\* called last and `outcome` what it returned.
InitIter ==
    /\ records \in SeqsUpTo(IterNames, MaxRecords)
    /\ ids \in SeqsUpTo(Names, MaxIds)
    /\ Len(records) + Len(ids) <= MaxRecords
    /\ keep = FALSE
    /\ engine = "iter"
    /\ last_pass = NoPass
    /\ value = << >>
    /\ record_name = "none"
    /\ Fresh

\* get_next_id where a failed read also forgets the current identifier.
GetNextIdClearsOnError ==
    /\ engine = "iter"
    /\ pc' = "get_next_id"
    /\ \E next \in {"line", "error"} :
          IF next = "error"
          THEN /\ filt_iter' = [filt_iter EXCEPT !.prev_id = filt_iter.curr_id,
                                                 !.curr_id = Unset]
               /\ outcome' = "CannotParseIdFileLine"
               /\ UNCHANGED id_file
          ELSE /\ filt_iter' = [filt_iter EXCEPT
                                   !.prev_id = filt_iter.curr_id,
                                   !.curr_id = IF id_file < Len(ids)
                                               THEN ids[id_file + 1] ELSE Unset]
               /\ id_file' = Min(id_file + 1, Len(ids))
               /\ outcome' = "Ok"
    /\ UNCHANGED << inputs, keep, engine, reader, prev_id, cur_id,
                    prev_record_name, cur_record_name, cur_record,
                    deal_with_remaining_reads, writer, finish_calls, read_calls,
                    decided, curr_record, last_pass, name_state >>

\* get_next_id: prev_id takes the value of curr_id, then the next line is
\* read; the line is stored as it is.
GetNextId ==
    /\ engine = "iter"
    /\ pc' = "get_next_id"
    /\ \E next \in {"line", "error"} :
          IF next = "error"
          THEN /\ filt_iter' = [filt_iter EXCEPT !.prev_id = filt_iter.curr_id]
               /\ outcome' = "CannotParseIdFileLine"
               /\ UNCHANGED id_file
          ELSE /\ filt_iter' = [filt_iter EXCEPT
                                   !.prev_id = filt_iter.curr_id,
                                   !.curr_id = IF id_file < Len(ids)
                                               THEN ids[id_file + 1] ELSE Unset]
               /\ id_file' = Min(id_file + 1, Len(ids))
               /\ outcome' = "Ok"
    /\ UNCHANGED << inputs, keep, engine, reader, prev_id, cur_id,
                    prev_record_name, cur_record_name, cur_record,
                    deal_with_remaining_reads, writer, finish_calls, read_calls,
                    decided, curr_record, last_pass, name_state >>

\* get_next_record: prev_record takes the id of the current record as a
\* String (a failure of from_utf8 returns before anything is assigned), then
\* the next record is read.
GetNextRecord ==
    /\ engine = "iter"
    /\ pc' = "get_next_record"
    /\ IF curr_record_id # Unset /\ ~IsUtf8(curr_record_id)
       THEN /\ outcome' = "CannotParseFastqRecordId"
            /\ UNCHANGED << filt_iter, reader >>
       ELSE \E next \in {"record", "error"} :
                  IF next = "error"
                  THEN /\ filt_iter' = [filt_iter EXCEPT !.prev_record = curr_record_id]
                       /\ outcome' = "CannotParseFastqRecord"
                       /\ UNCHANGED reader
                  ELSE /\ filt_iter' = [filt_iter EXCEPT
                                           !.prev_record = curr_record_id,
                                           !.curr_record = IF reader < Len(records)
                                                           THEN reader + 1 ELSE 0]
                       /\ reader' = Min(reader + 1, Len(records))
                       /\ outcome' = "Ok"
    /\ UNCHANGED << inputs, keep, engine, id_file, prev_id, cur_id,
                    prev_record_name, cur_record_name, cur_record,
                    deal_with_remaining_reads, writer, finish_calls, read_calls,
                    decided, curr_record, last_pass, name_state >>

\* A call of one of the three sortedness assertions; none changes the iterator.
AssertIdsAreSorted ==
    /\ engine = "iter"
    /\ pc' = "assert_ids_are_sorted"
    /\ outcome' = assert_ids_are_sorted(filt_iter.curr_id, filt_iter.prev_id)
    /\ UNCHANGED << inputs, keep, engine, cursors, deal_with_remaining_reads,
                    writer, finish_calls, read_calls, decided, fastq_state,
                    last_pass, name_state >>

AssertRecordsAreSorted ==
    /\ engine = "iter"
    /\ pc' = "assert_records_are_sorted"
    /\ outcome' = iter_assert_records_are_sorted(curr_record_id, filt_iter.prev_record)
    /\ UNCHANGED << inputs, keep, engine, cursors, deal_with_remaining_reads,
                    writer, finish_calls, read_calls, decided, fastq_state,
                    last_pass, name_state >>

\* The free function of opts.rs, given the current record of the iterator.
AssertRecordsAreSortedOpts ==
    /\ engine = "iter"
    /\ pc' = "opts::assert_records_are_sorted"
    /\ outcome' = assert_records_are_sorted(filt_iter.curr_record,
                                            filt_iter.prev_record)
    /\ UNCHANGED << inputs, keep, engine, cursors, deal_with_remaining_reads,
                    writer, finish_calls, read_calls, decided, fastq_state,
                    last_pass, name_state >>

NextIter ==
    \/ GetNextId
    \/ GetNextRecord
    \/ AssertIdsAreSorted
    \/ AssertRecordsAreSorted
    \/ AssertRecordsAreSortedOpts

SpecIter == InitIter /\ [][NextIter]_vars

\* ------------------------------------------------------------------------
\* A second pass of align::filter::filter with one more identifier line
\* ------------------------------------------------------------------------

\* What a finished pass leaves behind, with the identifier list it ran on.
PassResultWithIds ==
    [engine |-> engine, keep |-> keep, writer |-> writer, outcome |-> outcome,
     finish_calls |-> finish_calls, ids |-> ids]

\* The alignment filter is called again on the same record file with the same
\* `keep`, after a line has been added somewhere in the identifier file.
RerunWithExtraId ==
    /\ engine = "align"
    /\ pc = "done"
    /\ last_pass = NoPass
    /\ last_pass' = PassResultWithIds
    /\ \E p \in 0..Len(ids), n \in Names :
          ids' = SubSeq(ids, 1, p) \o << n >> \o SubSeq(ids, p + 1, Len(ids))
    /\ StartPass
    /\ UNCHANGED << records, keep, engine, name_state >>

NextExtraId ==
    \/ Next
    \/ RerunWithExtraId

SpecExtraId == Init /\ [][NextExtraId]_vars

\* ------------------------------------------------------------------------
\* Properties
\* ------------------------------------------------------------------------

\* The case-folded names of a stream.
Folded(seq) == [i \in 1..Len(seq) |-> to_lowercase(seq[i])]

\* No element is less than the one before it.
SortedSeq(seq) == \A i \in 1..(Len(seq) - 1) : ~LexLess(seq[i + 1], seq[i])

\* Both inputs non-empty and sorted by case-folded name.
ValidInputs ==
    /\ records # << >>
    /\ ids # << >>
    /\ SortedSeq(Folded(records))
    /\ SortedSeq(Folded(ids))

\* Record i has the case-folded name of some identifier of the list.
Matches(i) ==
    \E j \in 1..Len(ids) : to_lowercase(records[i]) = to_lowercase(ids[j])

Positions == [i \in 1..Len(records) |-> i]
MatchingRecords == SelectSeq(Positions, LAMBDA i : Matches(i))
NonMatchingRecords == SelectSeq(Positions, LAMBDA i : ~Matches(i))

\* Record i is among the records a writer received.
Written(i, w) == \E n \in 1..Len(w) : w[n] = i

\* The decisions taken for record i.
DecisionsOf(i) == { decided[n] : n \in { m \in 1..Len(decided) : decided[m].record = i } }

AlignDone == engine = "align" /\ pc = "done"

OrderingErrors == {"IdsNotSorted", "RecordsNotSorted"}

\* C1: discard mode. A pass of the alignment filter with keep = false over
\* non-empty sorted inputs ends successfully having written exactly the
\* records whose case-folded name equals no identifier, in input order.
C1_DiscardMode ==
    (AlignDone /\ ~keep /\ ValidInputs) =>
        (outcome = "ok" /\ writer = NonMatchingRecords)

C1_Witness ==
    /\ AlignDone /\ ~keep /\ ValidInputs
    /\ deal_with_remaining_reads
    /\ \E i \in 1..Len(records) : Matches(i)
    /\ Len(writer) >= 2

\* C2: keep mode. A pass of the alignment filter with keep = true over
\* non-empty sorted inputs writes exactly the records whose case-folded name
\* equals some identifier, in input order, and no other record.
C2_KeepMode ==
    (AlignDone /\ keep /\ ValidInputs) => writer = MatchingRecords

\* C3: complementarity. For the same sorted inputs, the records written by the
\* alignment filter with keep = true and those written with keep = false
\* partition the record stream: every record is in exactly one of the two.
C3_Complementarity ==
    (/\ last_pass.engine = "align"
     /\ AlignDone
     /\ last_pass.keep # keep
     /\ ValidInputs) =>
        \A i \in 1..Len(records) : Written(i, writer) # Written(i, last_pass.writer)

\* C4: duplicate keys. On sorted inputs, two consecutive records that share a
\* key equal to an identifier are both written when keep = true and both
\* dropped when keep = false, and both are decided in the equal branch against
\* the same identifier line: the identifier cursor does not move between them.
C4_DuplicateKeys ==
    (AlignDone /\ ValidInputs) =>
        \A i \in 1..(Len(records) - 1) :
            (to_lowercase(records[i]) = to_lowercase(records[i + 1]) /\ Matches(i)) =>
                /\ Written(i, writer) = keep
                /\ Written(i + 1, writer) = keep
                /\ DecisionsOf(i) # {}
                /\ DecisionsOf(i + 1) # {}
                /\ \A d \in DecisionsOf(i), e \in DecisionsOf(i + 1) :
                      /\ d.branch = "equal"
                      /\ e.branch = "equal"
                      /\ d.id = e.id
                      /\ to_lowercase(ids[d.id]) = to_lowercase(records[i])

C4_Witness ==
    /\ AlignDone /\ ValidInputs /\ keep
    /\ Len(ids) >= 2
    /\ \E i \in 1..(Len(records) - 1) :
          /\ to_lowercase(records[i]) = to_lowercase(records[i + 1])
          /\ records[i] # records[i + 1]
          /\ Matches(i)
          /\ Written(i, writer) /\ Written(i + 1, writer)

\* C5: completeness. On sorted inputs every record gets exactly one
\* emit-or-drop decision, in stream order (the records left unread when the
\* identifiers run out under keep = true are dropped together); the writer
\* holds exactly the records decided as written, so none is written twice and
\* the output is an order-preserving subsequence of the input.
C5_Completeness ==
    (engine = "align" /\ ValidInputs) =>
        /\ \A n \in 1..Len(decided) : decided[n].record = n
        /\ writer = SelectSeq(Positions,
                              LAMBDA i : i <= Len(decided) /\ decided[i].wrote)
        /\ \A n \in 1..(Len(writer) - 1) : writer[n] < writer[n + 1]
        /\ pc = "done" => Len(decided) = Len(records)

C5_Witness ==
    /\ AlignDone /\ ValidInputs
    /\ Len(records) = 3
    /\ Len(writer) = 2
    /\ \E n \in 1..Len(decided) : decided[n].branch = "exhausted"
    /\ \E n \in 1..Len(decided) : decided[n].branch = "equal"

\* C6 as stated: any input with an adjacent out-of-order pair in the record
\* stream or in the identifier list makes the alignment filter stop with an
\* ordering error; it never ends successfully on such an input.
C6_FailFast ==
    (/\ AlignDone
     /\ records # << >>
     /\ ids # << >>
     /\ ~(SortedSeq(Folded(records)) /\ SortedSeq(Folded(ids)))) =>
        outcome \in OrderingErrors

\* C6 amended: when the merge loop has read an identifier, or a record, that
\* is less than its predecessor, the pass stops at once with the corresponding
\* ordering error, with no further write, read or finish; and a pass that ends
\* successfully has no out-of-order pair among the identifiers it read or
\* among the records the merge loop read. (Identifiers left unread and records
\* drained by the tail flush are not validated.)
C6_FailFastOnReadDisorder ==
    [][ /\ (engine = "align" /\ pc = "loop" /\ LexLess(cur_id, prev_id)) =>
              /\ pc' = "done"
              /\ outcome' = "IdsNotSorted"
              /\ writer' = writer
              /\ read_calls' = read_calls
              /\ finish_calls' = finish_calls
        /\ (/\ engine = "align"
            /\ pc = "loop"
            /\ ~LexLess(cur_id, prev_id)
            /\ LexLess(cur_record_name, prev_record_name)) =>
              /\ pc' = "done"
              /\ outcome' = "RecordsNotSorted"
              /\ writer' = writer
              /\ read_calls' = read_calls
              /\ finish_calls' = finish_calls
        /\ (engine' = "align" /\ pc' = "done" /\ outcome' = "ok") =>
              /\ SortedSeq(Folded(SubSeq(ids, 1, id_file')))
              /\ SortedSeq(Folded(SubSeq(records, 1, cur_record')))
      ]_vars

C6_Witness ==
    /\ AlignDone
    /\ outcome = "IdsNotSorted"
    /\ writer # << >>
    /\ reader < Len(records)

\* C7: finalization. Every pass of the alignment filter that ends without an
\* error has called writer.finish() exactly once, whatever the value of keep.
C7_FinishOnce ==
    (AlignDone /\ outcome = "ok") => finish_calls = 1

\* C8: empty sources. With an empty identifier file the alignment filter stops
\* with the empty-identifier error before any record is read; with identifiers
\* but no record it stops with the empty-record error; in both cases nothing
\* was written, nothing was decided and finish() was not called.
C8_EmptySources ==
    /\ (AlignDone /\ ids = << >>) =>
          /\ outcome = "EmptyIds"
          /\ read_calls = 0
          /\ reader = 0
          /\ writer = << >>
          /\ decided = << >>
          /\ finish_calls = 0
    /\ (AlignDone /\ ids # << >> /\ records = << >>) =>
          /\ outcome = "EmptyRecords"
          /\ id_file = 1
          /\ writer = << >>
          /\ decided = << >>
          /\ finish_calls = 0

C8_Witness ==
    /\ AlignDone
    /\ outcome = "EmptyIds"
    /\ Len(records) >= 2

\* C9: equal keys are no sort violation. An ordering error of the alignment
\* filter is raised only when the current value is strictly less than the
\* previous one, and a pass over inputs that are sorted but hold repeated
\* record names or repeated identifiers ends without an ordering error.
C9_EqualKeysAllowed ==
    /\ (engine = "align" /\ outcome = "IdsNotSorted") =>
          (LexLess(cur_id, prev_id) /\ cur_id # prev_id)
    /\ (engine = "align" /\ outcome = "RecordsNotSorted") =>
          (LexLess(cur_record_name, prev_record_name)
             /\ cur_record_name # prev_record_name)
    /\ (AlignDone /\ ValidInputs) => outcome = "ok"

C9_Witness ==
    /\ AlignDone
    /\ outcome = "ok"
    /\ Len(ids) = 2
    /\ id_file = 2
    /\ to_lowercase(ids[1]) = to_lowercase(ids[2])
    /\ \E i \in 1..(Len(records) - 1) :
          to_lowercase(records[i]) = to_lowercase(records[i + 1])

\* C10: one engine. On the same records, the same sorted identifiers and the
\* same keep flag, the FASTQ filter writes the same sequence of records as the
\* alignment filter.
C10_SameAsAlign ==
    (/\ last_pass.engine = "align"
     /\ engine = "fastq"
     /\ pc = "done"
     /\ last_pass.keep = keep
     /\ ValidInputs) =>
        writer = last_pass.writer

BeginsWithSRR(v) == Len(v) >= 3 /\ v[1] = 83 /\ v[2] = 82 /\ v[3] = 82

\* C12: read-name format detection. For every read name RecordName::try_from
\* returns Ok(SequenceReadArchive) when the name begins with "SRR" and
\* Ok(CasavaV1_8) otherwise.
C12_NameFormat ==
    (engine = "name" /\ record_name # "none") =>
        record_name = IF BeginsWithSRR(value)
                      THEN "Ok(SequenceReadArchive)"
                      ELSE "Ok(CasavaV1_8)"

\* C13: identifier exhaustion with a pending record. When the identifier list
\* is found exhausted while the current record is greater than the current
\* identifier, the record is written if and only if keep is false, and the
\* rest of the stream is left to the tail flush.
C13_PendingRecord ==
    engine = "align" =>
        \A n \in 1..Len(decided) :
            decided[n].branch = "exhausted" =>
                /\ decided[n].wrote = ~keep
                /\ Written(decided[n].record, writer) = ~keep
                /\ deal_with_remaining_reads

\* The decisions taken inside the merge loop.
LoopBranches == {"less", "equal", "exhausted"}

\* C14: the ordering check precedes classification. Every record decided in
\* the merge loop, and every identifier it was compared with, is in order with
\* all that were read before it; a record read out of order is never decided
\* or written, an identifier read out of order is never compared with a
\* record, and the pass can only go on to stop with the ordering error.
C14_CheckBeforeUse ==
    engine = "align" =>
        /\ \A n \in 1..Len(decided) :
              decided[n].branch \in LoopBranches =>
                  /\ SortedSeq(Folded(SubSeq(records, 1, decided[n].record)))
                  /\ SortedSeq(Folded(SubSeq(ids, 1,
                                  IF decided[n].branch = "exhausted"
                                  THEN Len(ids) ELSE decided[n].id)))
        /\ LexLess(cur_record_name, prev_record_name) =>
              /\ DecisionsOf(cur_record) = {}
              /\ ~Written(cur_record, writer)
              /\ pc \in {"loop", "done"}
              /\ pc = "done" => outcome = "RecordsNotSorted"
        /\ LexLess(cur_id, prev_id) =>
              /\ \A n \in 1..Len(decided) : decided[n].id # id_file
              /\ pc \in {"loop", "done"}
              /\ pc = "done" => outcome = "IdsNotSorted"

C14_Witness ==
    /\ AlignDone
    /\ outcome = "RecordsNotSorted"
    /\ writer # << >>
    /\ id_file >= 2

\* The records still on the stream when the identifiers ran out.
TailRecords == [j \in 1..(Len(records) - cur_record) |-> cur_record + j]

\* C15: tail flush. Once the identifier list is exhausted, the records that
\* remain on the stream are all written, in order, when keep is false and none
\* of them is written when keep is true; when the stream is exhausted the sink
\* is finalized.
C15_TailFlush ==
    (AlignDone /\ outcome = "ok" /\ deal_with_remaining_reads) =>
        /\ \A i \in (cur_record + 1)..Len(records) : Written(i, writer) = ~keep
        /\ ~keep => SubSeq(writer, Len(writer) - Len(TailRecords) + 1, Len(writer))
                      = TailRecords
        /\ finish_calls = 1

Max(a, b) == IF a > b THEN a ELSE b

\* C16: asymmetric advance rule. Every iteration of the merge loop that gets
\* past the sortedness checks advances exactly one cursor: the record cursor,
\* with one decision, when the record key is less than or equal to the current
\* identifier, leaving the identifier cursor as it was; the identifier cursor
\* when the key is greater, leaving the record cursor as it was and, while
\* identifiers remain, taking no decision and writing nothing.
C16_AsymmetricAdvance ==
    [][ (engine = "align" /\ pc = "loop" /\ pc' # "done") =>
          IF ~LexLess(cur_id, cur_record_name)
          THEN /\ read_calls' = read_calls + 1
               /\ reader' = IF reader < Len(records) THEN reader + 1 ELSE reader
               /\ prev_record_name' = cur_record_name
               /\ Len(decided') = Len(decided) + 1
               /\ decided'[Len(decided')].record = cur_record
               /\ UNCHANGED << id_file, prev_id, cur_id >>
          ELSE /\ UNCHANGED << reader, read_calls, cur_record, cur_record_name,
                               prev_record_name >>
               /\ IF id_file < Len(ids)
                  THEN /\ id_file' = id_file + 1
                       /\ prev_id' = cur_id
                       /\ UNCHANGED << decided, writer >>
                       /\ pc' = "loop"
                  ELSE /\ UNCHANGED << id_file, prev_id, cur_id >>
                       /\ pc' = "after_loop"
      ]_vars

C16_Witness ==
    /\ engine = "align"
    /\ pc = "loop"
    /\ id_file >= 2
    /\ reader >= 3
    /\ Len(decided) = 2

\* C17: tail-flush activation. The tail flush is entered only with the
\* identifier list exhausted and the current record decided in the greater
\* branch; a pass whose record stream ends inside the merge loop finalizes the
\* sink once and ends successfully without entering the tail flush, whatever
\* identifiers are left unread.
C17_TailActivation ==
    engine = "align" =>
        /\ (pc = "drain" \/ deal_with_remaining_reads) =>
              /\ deal_with_remaining_reads
              /\ id_file = Len(ids)
              /\ \E n \in 1..Len(decided) :
                    decided[n].branch = "exhausted" /\ decided[n].record = cur_record
        /\ (pc = "done" /\ outcome = "ok" /\ ~deal_with_remaining_reads) =>
              /\ reader = Len(records)
              /\ read_calls = Len(records) + 1
              /\ finish_calls = 1
              /\ \A n \in 1..Len(decided) : decided[n].branch \in {"less", "equal"}

C17_Witness ==
    /\ AlignDone
    /\ outcome = "ok"
    /\ ~deal_with_remaining_reads
    /\ id_file < Len(ids)
    /\ ~SortedSeq(Folded(ids))
    /\ ~keep

\* C19: single forward pass with bounded lookahead. Each step moves a stream
\* position forward by at most one, a record is fetched by exactly one read
\* call and the reader is never asked more than once past its end, and in the
\* merge loop the engine holds exactly the current and the previous element of
\* each stream.
C19_ForwardPass ==
    [][ engine = "align" =>
          /\ reader' \in {reader, reader + 1}
          /\ id_file' \in {id_file, id_file + 1}
          /\ read_calls' \in {read_calls, read_calls + 1}
          /\ reader' = reader + 1 => read_calls' = read_calls + 1
          /\ read_calls' <= Len(records) + 1
          /\ pc' = "loop" =>
                /\ cur_record' = reader'
                /\ cur_record_name' = to_lowercase(records[reader'])
                /\ prev_record_name' = to_lowercase(records[Max(1, reader' - 1)])
                /\ cur_id' = to_lowercase(ids[id_file'])
                /\ prev_id' = to_lowercase(ids[Max(1, id_file' - 1)])
      ]_vars

C19_Witness ==
    /\ engine = "align"
    /\ pc = "loop"
    /\ reader = 3
    /\ id_file = 2
    /\ prev_id # cur_id
    /\ prev_record_name # cur_record_name

\* Case folding of a name, byte by byte.
LowerCased(s) ==
    [j \in 1..Len(s) |-> IF s[j] \in 65..90 THEN s[j] + 32 ELSE s[j]]

\* C20: case folding. Every identifier and every record name the alignment
\* filter holds is the lower-cased form of the line or name read, first and
\* subsequent alike; a record is decided as a match exactly on equality of the
\* lower-cased values, as before or after on their order, and the ordering
\* errors are raised on the lower-cased values.
C20_CaseFolding ==
    engine = "align" =>
        /\ id_file >= 1 =>
              /\ cur_id = LowerCased(ids[id_file])
              /\ prev_id = LowerCased(ids[Max(1, id_file - 1)])
        /\ cur_record >= 1 =>
              /\ cur_record_name = LowerCased(records[cur_record])
              /\ prev_record_name \in
                    { LowerCased(records[cur_record]),
                      LowerCased(records[Max(1, cur_record - 1)]) }
        /\ \A n \in 1..Len(decided) :
              LET r == LowerCased(records[decided[n].record])
              IN /\ decided[n].branch = "equal" => r = LowerCased(ids[decided[n].id])
                 /\ decided[n].branch = "less" =>
                       LexLess(r, LowerCased(ids[decided[n].id]))
                 /\ decided[n].branch = "exhausted" =>
                       LexLess(LowerCased(ids[Len(ids)]), r)
        /\ outcome = "RecordsNotSorted" =>
              LexLess(LowerCased(records[cur_record]),
                      LowerCased(records[cur_record - 1]))
        /\ outcome = "IdsNotSorted" =>
              LexLess(LowerCased(ids[id_file]), LowerCased(ids[id_file - 1]))

C20_Witness ==
    /\ AlignDone
    /\ outcome = "ok"
    /\ id_file >= 2
    /\ \E n \in 1..Len(decided) :
          /\ decided[n].branch = "equal"
          /\ decided[n].record >= 2
          /\ records[decided[n].record] # ids[decided[n].id]

\* What is left to consume: the records and identifiers not yet read, and the
\* merge loop itself while it runs.
Measure ==
    (Len(records) - reader) + (Len(ids) - id_file) + (IF pc = "loop" THEN 1 ELSE 0)

\* C18: termination. Every pass of the alignment filter ends (successfully or
\* with an error); each iteration of the merge loop consumes a record or an
\* identifier or leaves the loop, and the loop is entered with at most N + M
\* left to consume, so it runs at most N + M iterations.
C18_Termination ==
    /\ <>(pc = "done")
    /\ [][ (engine = "align" /\ pc = "loop") =>
              (Measure' < Measure /\ Measure' >= 0) ]_vars
    /\ [](pc = "loop" => Measure <= Len(records) + Len(ids))

C18_Witness ==
    /\ AlignDone
    /\ outcome = "ok"
    /\ Len(records) = 3
    /\ Len(ids) = 2
    /\ id_file = 2
    /\ Len(decided) = 3
    /\ \A n \in 1..3 : decided[n].branch \in {"less", "equal"}

\* C25: no write after finalization. In every pass of the alignment filter
\* writer.finish() is called at most once, no write and no second finish
\* follows it, and the tail flush is never entered after a finish made at the
\* end of the record stream inside the merge loop.
C25_NoWriteAfterFinish ==
    [][ engine = "align" =>
           /\ finish_calls' <= 1
           /\ finish_calls = 1 => (writer' = writer /\ finish_calls' = 1)
           /\ finish_calls = 1 => pc' # "drain"
           /\ (pc' = "drain" /\ pc # "drain") => finish_calls = 0 ]_vars

C25_Witness ==
    /\ AlignDone
    /\ finish_calls = 1
    /\ Len(writer) >= 2
    /\ \E n \in 1..Len(decided) : decided[n].branch = "tail"

\* C26: merge-join invariant. For sorted inputs, at the start of every
\* iteration of the merge loop every identifier already passed over is
\* strictly less than the key of the current record, and every record already
\* classified has a key less than or equal to it.
C26_MergeJoin ==
    (engine = "align" /\ pc = "loop" /\ ValidInputs) =>
        /\ \A j \in 1..(id_file - 1) :
              LexLess(LowerCased(ids[j]), LowerCased(records[cur_record]))
        /\ \A n \in 1..Len(decided) :
              ~LexLess(LowerCased(records[cur_record]),
                       LowerCased(records[decided[n].record]))
        /\ cur_record_name = LowerCased(records[cur_record])

C26_Witness ==
    /\ engine = "align" /\ pc = "loop" /\ ValidInputs
    /\ id_file = 2
    /\ Len(decided) >= 2
    /\ \E n \in 1..Len(decided) : decided[n].branch = "equal"

\* C29: RecordName::try_from returns a value, Ok or Err, for every byte
\* string, the empty one and those shorter than three bytes included; it
\* never aborts.
C29_Total ==
    (engine = "name" /\ record_name # "none") =>
        record_name \in {"Ok(SequenceReadArchive)", "Ok(CasavaV1_8)",
                         "Err(UncertainRecordNameFormat)"}

\* The ways a pass of the alignment filter aborts.
Failures ==
    {"EmptyIds", "EmptyRecords", "IdsNotSorted", "RecordsNotSorted",
     "IdParseError", "RecordParseError", "WriteFailure", "FinalizeFailure"}

\* C21: errors are terminal. Once the alignment filter has hit an error (an
\* ordering violation, an identifier or a record that cannot be parsed, a
\* failed write or a failed finish), the pass is over: no read, no write and
\* no finish follows, and the error stays the outcome.
C21_ErrorsAreTerminal ==
    /\ [](outcome \in Failures => pc = "done")
    /\ [][ (outcome \in Failures) =>
              (UNCHANGED << outcome, writer, read_calls, finish_calls,
                            id_file, reader >>) ]_vars

C21_Witness ==
    /\ AlignDone
    /\ outcome = "WriteFailure"
    /\ writer # << >>
    /\ reader < Len(records)
    /\ id_file < Len(ids)

\* The identifier lines consumed before the pass stopped; the line that broke
\* the order is the offending element and is left out.
ConsumedIds == 1..(IF outcome = "IdsNotSorted" THEN id_file - 1 ELSE id_file)

\* The policy accepts record i against the identifiers consumed.
Accepts(i) ==
    keep = (\E j \in ConsumedIds : LowerCased(records[i]) = LowerCased(ids[j]))

\* The records classified so far, in the order they were classified.
Classified == [n \in 1..Len(decided) |-> decided[n].record]

\* C22: partial output is valid. Whenever the alignment filter aborts with an
\* error, the records written are, in input order, exactly the records
\* classified before the error that the policy accepts against the identifiers
\* consumed up to then.
C22_PartialOutput ==
    (AlignDone /\ outcome \in Failures) =>
        writer = SelectSeq(Classified, Accepts)

\* The records classified by the merge loop, and those drained by the tail
\* flush, in the order they were classified.
ClassifiedIn(branches) ==
    LET sel == SelectSeq(decided, LAMBDA d : d.branch \in branches)
    IN [n \in 1..Len(sel) |-> sel[n].record]

\* C22, amended: whenever the alignment filter aborts with an error, the
\* output is what the merge loop wrote followed by what the tail flush wrote.
\* The merge loop wrote, in input order, exactly the records it classified
\* that the policy accepts against the identifiers consumed; the tail flush
\* wrote the records it read without comparing them. The whole output is
\* the accepted part of the classified records whenever these are in sorted
\* order, and no record read after the offending element has been written.
C22_PartialOutputOfLoop ==
    (AlignDone /\ outcome \in Failures) =>
        /\ writer = SelectSeq(ClassifiedIn({"less", "equal", "exhausted"}), Accepts)
                    \o ClassifiedIn({"tail"})
        /\ SortedSeq([n \in 1..Len(Classified) |-> LowerCased(records[Classified[n]])])
              => writer = SelectSeq(Classified, Accepts)
        /\ \A n \in 1..Len(writer) :
              /\ writer[n] <= reader
              /\ outcome = "RecordsNotSorted" => writer[n] < cur_record

C22_Witness ==
    /\ AlignDone
    /\ outcome = "RecordParseError"
    /\ \E n \in 1..Len(decided) : decided[n].branch = "tail"
    /\ \E n \in 1..Len(decided) : decided[n].branch = "equal"
    /\ Len(writer) = 2

\* What the three assertions should return for a current and a previous
\* value, either of which may be absent.
SortedOrError(c, p, e) ==
    IF c # Unset /\ p # Unset /\ LexLess(c, p) THEN e ELSE "Ok"

\* C23: FASTQ sortedness assertions. Each of the three functions returns Ok
\* when the current value is greater than or equal to the previous one or
\* when either is absent, and its error (IdFileNotSorted, FastqNotSorted)
\* exactly when the current value is less than the previous one.
C23_SortednessAssertions ==
    engine = "iter" =>
        /\ pc = "assert_ids_are_sorted" =>
              outcome = SortedOrError(filt_iter.curr_id, filt_iter.prev_id,
                                      "IdFileNotSorted")
        /\ pc = "assert_records_are_sorted" =>
              outcome = SortedOrError(curr_record_id, filt_iter.prev_record,
                                      "FastqNotSorted")
        /\ pc = "opts::assert_records_are_sorted" =>
              outcome = SortedOrError(curr_record_id, filt_iter.prev_record,
                                      "FastqNotSorted")

\* C24: FASTQ cursor shift. A successful get_next_id leaves in prev_id the
\* identifier that was current before the call and in curr_id the case-folded
\* next line of the reader, or None once the reader is exhausted; a
\* successful get_next_record does the same with the id of the current record
\* and the next record. On a fresh iterator the first call leaves the previous
\* value None.
C24_CursorShift ==
    [][ engine = "iter" =>
           /\ (pc' = "get_next_id" /\ outcome' = "Ok") =>
                 /\ filt_iter'.prev_id = filt_iter.curr_id
                 /\ filt_iter'.curr_id = IF id_file < Len(ids)
                                         THEN LowerCased(ids[id_file + 1])
                                         ELSE Unset
           /\ (pc' = "get_next_record" /\ outcome' = "Ok") =>
                 /\ filt_iter'.prev_record = curr_record_id
                 /\ filt_iter'.curr_record = IF reader < Len(records)
                                             THEN reader + 1 ELSE 0 ]_vars

\* The three errors of get_next_id and get_next_record.
IterErrors ==
    {"CannotParseIdFileLine", "CannotParseFastqRecord", "CannotParseFastqRecordId"}

\* C30: state unchanged on error. When get_next_id or get_next_record fails,
\* the previous and current identifier and record fields of the iterator are
\* what they were before the call.
C30_UnchangedOnError ==
    [][ (engine = "iter" /\ outcome' \in IterErrors) => filt_iter' = filt_iter ]_vars

\* C30, amended: a get_next_record that fails with CannotParseFastqRecordId
\* leaves the iterator as it was. A get_next_id that fails with
\* CannotParseIdFileLine leaves curr_id as it was and has copied it into
\* prev_id; a get_next_record that fails with CannotParseFastqRecord leaves
\* curr_record as it was and has stored its id in prev_record. The fields of
\* the other cursor are untouched.
C30_StateAfterError ==
    [][ engine = "iter" =>
           /\ outcome' = "CannotParseFastqRecordId" => filt_iter' = filt_iter
           /\ outcome' = "CannotParseIdFileLine" =>
                 filt_iter' = [filt_iter EXCEPT !.prev_id = filt_iter.curr_id]
           /\ outcome' = "CannotParseFastqRecord" =>
                 filt_iter' = [filt_iter EXCEPT !.prev_record = curr_record_id] ]_vars

C30_Witness ==
    /\ engine = "iter"
    /\ pc = "get_next_id"
    /\ outcome = "CannotParseIdFileLine"
    /\ id_file = 2
    /\ ids[1] # ids[2]
    /\ filt_iter.prev_id = ids[2]
    /\ filt_iter.curr_id = ids[2]
    /\ filt_iter.curr_record # 0

\* C28: FASTQ filter termination. Every call of filter_with_id_file returns:
\* an iteration of its loop is never followed by another one without the
\* loop being left, and the call ends with Ok or an error.
C28_FastqTermination ==
    /\ <>(pc = "done" /\ outcome # "running")
    /\ [][ (engine = "fastq" /\ pc = "fq_loop") =>
              pc' \in {"fq_after_loop", "done"} ]_vars

C28_Witness ==
    /\ engine = "fastq"
    /\ pc = "done"
    /\ outcome = "ok"
    /\ Len(records) = MaxRecords
    /\ Len(ids) = MaxIds
    /\ reader = 1

\* Record i has the case-folded name of some identifier of the list l.
MatchesIn(i, l) ==
    \E j \in 1..Len(l) : LowerCased(records[i]) = LowerCased(l[j])

\* C27: irrelevant identifiers do not matter. Two passes of the alignment
\* filter with the same policy over the same sorted records and over two
\* sorted identifier lists, the second being the first with one line added
\* that repeats an identifier or equals no record key, write the same
\* sequence of records.
C27_IrrelevantIds ==
    (/\ AlignDone
     /\ "ids" \in DOMAIN last_pass
     /\ ValidInputs
     /\ last_pass.ids # << >>
     /\ SortedSeq(Folded(last_pass.ids))
     /\ \A i \in 1..Len(records) : MatchesIn(i, ids) = MatchesIn(i, last_pass.ids)) =>
        writer = last_pass.writer
====
